---------------------------- MODULE Spec2Model ----------------------------
(***************************************************************************)
(* scaleSingleTrackMesh.py: the per-axis, multi-region piecewise-affine    *)
(* rescaling of a single-track finite-element mesh.                        *)
(*                                                                         *)
(* The program is one sequential batch run (main).  A behaviour of the     *)
(* model is one run: the initial state is the program right after the two  *)
(* parser calls returned (line 72), every action is one block or one loop  *)
(* iteration of main, and pc is the position in main.                      *)
(*                                                                         *)
(* Real numbers are exact rationals <<numerator, denominator>> in lowest   *)
(* terms, so every equality below is an equality of exact arithmetic; the  *)
(* program computes in IEEE doubles.                                       *)
(***************************************************************************)
EXTENDS Integers, Sequences, FiniteSets, TLC

(***************************************************************************)
(* Bounds of the explored inputs.                                          *)
(***************************************************************************)
\* Number of nodes of the mesh (node IDs are 1..NumNodes).
NumNodes == 3
\* Raw nodal coordinates along the axis under study are 0..MaxCoord.
MaxCoord == 2
\* A target dimension is m times its reference dimension, m in 1..MaxScale.
MaxScale == 2

Nodes == 1..NumNodes

(***************************************************************************)
(* Exact rational arithmetic (Python float arithmetic without rounding).   *)
(***************************************************************************)
Abs(x) == IF x < 0 THEN -x ELSE x

RECURSIVE GCD(_, _)
GCD(a, b) == IF b = 0 THEN a ELSE GCD(b, a % b)

Rat(n, d) ==
    LET g == GCD(Abs(n), Abs(d))
        s == IF d < 0 THEN -1 ELSE 1
    IN  <<(s * n) \div g, (s * d) \div g>>

RInt(i) == <<i, 1>>
RAdd(x, y) == Rat(x[1] * y[2] + y[1] * x[2], x[2] * y[2])
RSub(x, y) == Rat(x[1] * y[2] - y[1] * x[2], x[2] * y[2])
RMul(x, y) == Rat(x[1] * y[1], x[2] * y[2])
RDiv(x, y) == Rat(x[1] * y[2], x[2] * y[1])
RLess(x, y) == x[1] * y[2] < y[1] * x[2]
RLeq(x, y) == x[1] * y[2] <= y[1] * x[2]

\* min() and max() of a non-empty collection of rationals.
RMin(S) == CHOOSE x \in S : \A y \in S : RLeq(x, y)
RMax(S) == CHOOSE x \in S : \A y \in S : RLeq(y, x)

(***************************************************************************)
(* Axes, role names and the reference dimensions.                          *)
(***************************************************************************)
\* The order in which main treats the axes: length (Y), width (X), depth (Z).
AxisSeq == <<"Length", "Width", "Depth">>
Axes == {"Length", "Width", "Depth"}

\* The role lists of the branch taken when left/bottom lies below right/top.
LengthRoles ==
    << "setControllingBasePlateLengthLeftMost",
       "setControllingBasePlateLengthLeft",
       "setControllingDepositLength",
       "setControllingBasePlateLengthRight",
       "setControllingBasePlateLengthRightMost" >>

WidthRoles ==
    << "setControllingBasePlateWidthLeftMost",
       "setControllingBasePlateWidthLeft",
       "setControllingDepositWidth",
       "setControllingBasePlateWidthRight",
       "setControllingBasePlateWidthRightMost" >>

DepthRoles ==
    << "setControllingBasePlateDepthBottom",
       "setControllingBasePlateDepthTop",
       "setControllingDepositDepth" >>

DeclaredRoles(a) ==
    CASE a = "Length" -> LengthRoles
      [] a = "Width"  -> WidthRoles
      [] a = "Depth"  -> DepthRoles

\* The two node sets whose minima decide the direction of an axis.
LeftBoundary(a) ==
    CASE a = "Length" -> "setControllingBasePlateLengthLeftMost"
      [] a = "Width"  -> "setControllingBasePlateWidthLeftMost"
      [] a = "Depth"  -> "setControllingBasePlateDepthBottom"

DepthTopAsBoundary(a) ==
    CASE a = "Length" -> "setControllingBasePlateLengthRightMost"
      [] a = "Width"  -> "setControllingBasePlateWidthRightMost"
      [] a = "Depth"  -> "setControllingBasePlateDepthTop"

RightBoundary(a) ==
    CASE a = "Length" -> "setControllingBasePlateLengthRightMost"
      [] a = "Width"  -> "setControllingBasePlateWidthRightMost"
      [] a = "Depth"  -> "setControllingDepositDepth"

\* The coordinate list main reads for an axis: Y for length, X for width,
\* Z for depth.
CoordinateOf(a) ==
    CASE a = "Length" -> "Y"
      [] a = "Width"  -> "X"
      [] a = "Depth"  -> "Z"

\* str.upper() on the node-set names that occur: the declared spelling of a
\* role name and its all-capitals spelling have the same image; any other
\* name that occurs is already in capitals.
Capitals ==
    [ setControllingBasePlateLengthLeftMost  |-> "SETCONTROLLINGBASEPLATELENGTHLEFTMOST",
      setControllingBasePlateLengthLeft      |-> "SETCONTROLLINGBASEPLATELENGTHLEFT",
      setControllingDepositLength            |-> "SETCONTROLLINGDEPOSITLENGTH",
      setControllingBasePlateLengthRight     |-> "SETCONTROLLINGBASEPLATELENGTHRIGHT",
      setControllingBasePlateLengthRightMost |-> "SETCONTROLLINGBASEPLATELENGTHRIGHTMOST",
      setControllingBasePlateWidthLeftMost   |-> "SETCONTROLLINGBASEPLATEWIDTHLEFTMOST",
      setControllingBasePlateWidthLeft       |-> "SETCONTROLLINGBASEPLATEWIDTHLEFT",
      setControllingDepositWidth             |-> "SETCONTROLLINGDEPOSITWIDTH",
      setControllingBasePlateWidthRight      |-> "SETCONTROLLINGBASEPLATEWIDTHRIGHT",
      setControllingBasePlateWidthRightMost  |-> "SETCONTROLLINGBASEPLATEWIDTHRIGHTMOST",
      setControllingBasePlateDepthBottom     |-> "SETCONTROLLINGBASEPLATEDEPTHBOTTOM",
      setControllingBasePlateDepthTop        |-> "SETCONTROLLINGBASEPLATEDEPTHTOP",
      setControllingDepositDepth             |-> "SETCONTROLLINGDEPOSITDEPTH" ]

Upper(name) == IF name \in DOMAIN Capitals THEN Capitals[name] ELSE name

\* The scaling factors main derives from the command line: target dimension
\* divided by the reference dimension of the region.
ScalingFactors(argv) ==
    [ BasePlateLengthLeftCoarseRegion  |-> RDiv(argv[2],  RInt(3)),
      BasePlateLengthLeftFineRegion    |-> RDiv(argv[3],  RInt(2)),
      DepositLength                    |-> RDiv(argv[4],  RInt(10)),
      BasePlateLengthRightFineRegion   |-> RDiv(argv[5],  RInt(2)),
      BasePlateLengthRightCoarseRegion |-> RDiv(argv[6],  RInt(3)),
      BasePlateWidthLeftCoarseRegion   |-> RDiv(argv[7],  RInt(1)),
      BasePlateWidthLeftFineRegion     |-> RDiv(argv[8],  RInt(1)),
      DepositWidth                     |-> RDiv(argv[9],  RInt(1)),
      BasePlateWidthRightFineRegion    |-> RDiv(argv[10], RInt(1)),
      BasePlateWidthRightCoarseRegion  |-> RDiv(argv[11], RInt(1)),
      BasePlateDepthBottomCoarseRegion |-> RDiv(argv[12], RInt(1)),
      BasePlateDepthTopFineRegion      |-> RDiv(argv[13], Rat(3, 4)),
      DepositDepth                     |-> RDiv(argv[14], Rat(1, 2)) ]

(***************************************************************************)
(* The stages of main as functions of their inputs.                        *)
(***************************************************************************)
\* listCoordinatesX = [x - coordXmin for x in listCoordinatesX], and the same
\* for Y and Z.
Normalized(coords) ==
    LET lo == RMin({coords[i] : i \in DOMAIN coords})
    IN  [i \in DOMAIN coords |-> RSub(coords[i], lo)]

\* min(listCoordinatesY_) and max(listCoordinatesY_) of every parsed node set.
UnorderedMin(coords, sets) ==
    [i \in DOMAIN sets |-> RMin({coords[idNode] : idNode \in sets[i]})]

UnorderedMax(coords, sets) ==
    [i \in DOMAIN sets |-> RMax({coords[idNode] : idNode \in sets[i]})]

\* The indices from i on, in parse order, of the node sets whose name in
\* capitals is upperRole.
RECURSIVE MatchingFrom(_, _, _)
MatchingFrom(names, upperRole, i) ==
    IF i > Len(names)
    THEN <<>>
    ELSE IF Upper(names[i]) = upperRole
         THEN <<i>> \o MatchingFrom(names, upperRole, i + 1)
         ELSE MatchingFrom(names, upperRole, i + 1)

\* The indices, in parse order, of the node sets whose name matches a role:
\* listNodeSetsNames[i].upper() == role.upper().
Matching(names, role) == MatchingFrom(names, Upper(role), 1)

\* A local variable of main that no statement has assigned yet.
Unbound == <<>>

\* The loop over all node sets that assigns minYalongLength_left and its like:
\* a later match overwrites an earlier one, no match leaves the variable
\* unassigned.
BoundaryMinimum(names, mins, role) ==
    LET m == Matching(names, role)
    IN  IF m = <<>> THEN Unbound ELSE mins[m[Len(m)]]

\* The node-set list of the if-branch and of the else-branch of an axis.
NodeSetsForOrderingIf(a) == DeclaredRoles(a)

NodeSetsForOrderingElse(a) ==
    CASE a = "Length" ->
            << "setControllingBasePlateLengthRightMost",
               "setControllingBasePlateLengthRight",
               "setControllingDepositLength",
               "setControllingBasePlateLengthLeft",
               "setControllingBasePlateLengthLeftMost" >>
      [] a = "Width" ->
            << "setControllingBasePlateWidthRightMost",
               "setControllingBasePlateWidthRight",
               "setControllingDepositWidth",
               "setControllingBasePlateWidthLeft",
               "setControllingBasePlateWidthLeftMost" >>
      [] a = "Depth" ->
            << "setControllingDepositDepth",
               "setControllingBasePlateDepthTop",
               "setControllingBasePlateDepthBottom" >>

\* The scaling-factor list of the if-branch.
ScalingFactorsIf(a, sf) ==
    CASE a = "Length" ->
            << sf.BasePlateLengthLeftCoarseRegion,
               sf.BasePlateLengthLeftFineRegion,
               sf.DepositLength,
               sf.BasePlateLengthRightFineRegion,
               sf.BasePlateLengthRightCoarseRegion >>
      [] a = "Width" ->
            << sf.BasePlateWidthLeftCoarseRegion,
               sf.BasePlateWidthLeftFineRegion,
               sf.DepositWidth,
               sf.BasePlateWidthRightFineRegion,
               sf.BasePlateWidthRightCoarseRegion >>
      [] a = "Depth" ->
            << sf.BasePlateDepthBottomCoarseRegion,
               sf.BasePlateDepthTopFineRegion,
               sf.DepositDepth >>

\* The factors left in declared order where the roles are reversed.
ScalingFactorsNotReversed(a, sf) == ScalingFactorsIf(a, sf)

\* The scaling-factor list of the else-branch.
ScalingFactorsElse(a, sf) ==
    CASE a = "Length" ->
            << sf.BasePlateLengthRightCoarseRegion,
               sf.BasePlateLengthRightFineRegion,
               sf.DepositLength,
               sf.BasePlateLengthLeftFineRegion,
               sf.BasePlateLengthLeftCoarseRegion >>
      [] a = "Width" ->
            << sf.BasePlateWidthRightCoarseRegion,
               sf.BasePlateWidthRightFineRegion,
               sf.DepositWidth,
               sf.BasePlateWidthLeftFineRegion,
               sf.BasePlateWidthLeftCoarseRegion >>
      [] a = "Depth" ->
            << sf.DepositDepth,
               sf.BasePlateDepthTopFineRegion,
               sf.BasePlateDepthBottomCoarseRegion >>

\* The test with <= in the place of <.
LeftNotAboveRight(left, right) == RLeq(left, right)

\* The test of "if minYalongLength_left < minYalongLength_right".
LeftBelowRight(left, right) == RLess(left, right)

NodeSetsForOrdering(a, left, right) ==
    IF LeftBelowRight(left, right)
    THEN NodeSetsForOrderingIf(a)
    ELSE NodeSetsForOrderingElse(a)

ScalingFactorsAlong(a, left, right, sf) ==
    IF LeftBelowRight(left, right)
    THEN ScalingFactorsIf(a, sf)
    ELSE ScalingFactorsElse(a, sf)

\* The double loop over (ordered role, parsed node set): the indices of the
\* node sets it appends an entry for, one for every pair whose names match.
RECURSIVE SetsForOrderingFrom(_, _, _)
SetsForOrderingFrom(names, ordered, k) ==
    IF k > Len(ordered)
    THEN <<>>
    ELSE Matching(names, ordered[k]) \o SetsForOrderingFrom(names, ordered, k + 1)

\* listMinCoordinatesForSetOrderingAlongLength (and the Max list, and those
\* of the other axes): the entries of the unordered list at those indices.
CoordinatesAt(unordered, indices) ==
    [j \in 1..Len(indices) |-> unordered[indices[j]]]

\* The value [1E20] * len(listCoordinatesY) starts every entry with.  1E20 is
\* beyond the integers of the model checker; the stand-in lies, like 1E20,
\* above every coordinate the bounds allow.
Sentinel == <<2000000000, 1>>

\* The coordinate scaled about the origin of the axis instead of the minimum
\* of its region: translationTotal + c * factor.
ScaledAboutOrigin(translation, minForThisRegion, c, factor) ==
    RAdd(translation, RMul(c, factor))

\* The minimum of the region not added back:
\* translationTotal + (c - minForThisRegion) * factor.
ScaledWithoutMinimum(translation, minForThisRegion, c, factor) ==
    RAdd(translation, RMul(RSub(c, minForThisRegion), factor))

\* translationTotal + minForThisRegion + (c - minForThisRegion) * factor
ScaledCoordinate(translation, minForThisRegion, c, factor) ==
    RAdd(RAdd(translation, minForThisRegion),
         RMul(RSub(c, minForThisRegion), factor))

\* The translation left as it was: the update of translationTotal forgotten.
TranslationUnchanged(translation, minForThisRegion, maxForThisRegion, factor) ==
    translation

\* translationTotal + dLength * (factor - 1)
NextTranslation(translation, minForThisRegion, maxForThisRegion, factor) ==
    LET dLength == RSub(maxForThisRegion, minForThisRegion)
    IN  RAdd(translation, RMul(dLength, RSub(factor, RInt(1))))

\* The members of the last parsed node set whose name matches the role only.
NodesOfLastMatch(names, sets, role) ==
    LET m == Matching(names, role)
    IN  IF m = <<>> THEN {} ELSE sets[m[Len(m)]]

\* The node IDs the inner loops of one iteration write: the members of every
\* parsed node set whose name matches the ordered role.
NodesWritten(names, sets, role) ==
    LET m == Matching(names, role)
    IN  UNION {sets[m[j]] : j \in 1..Len(m)}

\* One iteration of "for iNodeSetOrdering in range(...)": the scaled list
\* after the inner loops.
ScaledAfterRegion(scaled, coords, names, sets, role, translation, minForThisRegion, factor) ==
    LET written == NodesWritten(names, sets, role)
    IN  [n \in DOMAIN scaled |->
            IF n \in written
            THEN ScaledCoordinate(translation, minForThisRegion, coords[n], factor)
            ELSE scaled[n]]

\* One iteration of the scaling loop of an axis, from the translationTotal
\* and the scaled list prev that the iterations before it left.  ctx holds
\* what the loop reads: coords, names, sets, ordered (the role list),
\* factors, mins and maxs.
ScaleIteration(ctx, i, prev) ==
    [ translationTotal |->
          NextTranslation(prev.translationTotal, ctx.mins[i], ctx.maxs[i],
                          ctx.factors[i]),
      scaled |->
          ScaledAfterRegion(prev.scaled, ctx.coords, ctx.names, ctx.sets,
                            ctx.ordered[i], prev.translationTotal,
                            ctx.mins[i], ctx.factors[i]) ]

\* The scaling loop of one axis after its first upto iterations, started from
\* translationTotal = 0 and a scaled list full of 1E20.
RECURSIVE ScaleLoop(_, _)
ScaleLoop(ctx, upto) ==
    IF upto = 0
    THEN [ translationTotal |-> RInt(0),
           scaled |-> [n \in DOMAIN ctx.coords |-> Sentinel] ]
    ELSE ScaleIteration(ctx, upto, ScaleLoop(ctx, upto - 1))

(***************************************************************************)
(* The explored inputs: what the command line and the two parsers hand to  *)
(* main.  One axis (the axis under study) carries the mesh that varies; on *)
(* the two other axes every controlling set holds every node, the targets  *)
(* equal the reference dimensions and the names are spelled in capitals.   *)
(***************************************************************************)
\* The roles in the order of their target dimensions on the command line:
\* sys.argv[k] is the target of ArgvRoles[k - 1].
ArgvRoles == LengthRoles \o WidthRoles \o DepthRoles

\* The reference dimension the usage text gives for a role.
ReferenceDimension(role) ==
    CASE role = "setControllingBasePlateLengthLeftMost"  -> RInt(3)
      [] role = "setControllingBasePlateLengthLeft"      -> RInt(2)
      [] role = "setControllingDepositLength"            -> RInt(10)
      [] role = "setControllingBasePlateLengthRight"     -> RInt(2)
      [] role = "setControllingBasePlateLengthRightMost" -> RInt(3)
      [] role = "setControllingBasePlateDepthTop"        -> Rat(3, 4)
      [] role = "setControllingDepositDepth"             -> Rat(1, 2)
      [] OTHER -> RInt(1)

\* The position of the first role of an axis in ArgvRoles, minus one.
ArgvOffset(a) ==
    CASE a = "Length" -> 0
      [] a = "Width"  -> Len(LengthRoles)
      [] a = "Depth"  -> Len(LengthRoles) + Len(WidthRoles)

\* The command line: the target of role i of the axis under study is
\* mult[i] times its reference dimension (scaling factors 1 .. MaxScale),
\* every other target equals its reference dimension.
ArgvOf(focus, mult) ==
    [k \in 2..(Len(ArgvRoles) + 1) |->
        LET i == k - 1 - ArgvOffset(focus)
        IN  IF i \in 1..Len(DeclaredRoles(focus))
            THEN RMul(RInt(mult[i]), ReferenceDimension(ArgvRoles[k - 1]))
            ELSE ReferenceDimension(ArgvRoles[k - 1])]

\* Whether membership pattern p (a bit mask over the role positions of the
\* axis under study) puts a node in role i.
Bit(p, i) == (p \div (2 ^ (i - 1))) % 2 = 1

\* The node set parsed for role i when node n has pattern pattern[n].
MembersOf(pattern, i) == {n \in Nodes : Bit(pattern[n], i)}

\* The parsed node sets: the roles of length, width and depth in declared
\* order, then the extra sets.
FileNames(focus, naming) ==
    [k \in 1..Len(ArgvRoles) |->
        LET i == k - ArgvOffset(focus)
        IN  IF i \in 1..Len(DeclaredRoles(focus))
            THEN naming[i]
            ELSE Upper(ArgvRoles[k])]

FileSets(focus, pattern) ==
    [k \in 1..Len(ArgvRoles) |->
        LET i == k - ArgvOffset(focus)
        IN  IF i \in 1..Len(DeclaredRoles(focus))
            THEN MembersOf(pattern, i)
            ELSE Nodes]

\* The raw coordinates: coord along the axis under study, the node ID along
\* the two others.
CoordinatesOf(focus, coord) ==
    [a \in Axes |-> [n \in Nodes |-> IF a = focus THEN RInt(coord[n]) ELSE RInt(n)]]

Input(focus, coord, pattern, mult, naming, extraNames, extraSets) ==
    [ coords |-> CoordinatesOf(focus, coord),
      names  |-> FileNames(focus, naming) \o extraNames,
      sets   |-> FileSets(focus, pattern) \o extraSets,
      argv   |-> ArgvOf(focus, mult) ]

NumRoles(a) == Len(DeclaredRoles(a))

\* main never looks at a node ID except to index the coordinate lists, so of
\* the meshes that differ only by a renumbering of the nodes one is explored:
\* the one whose (pattern, coordinate) pairs are non-decreasing in the node ID.
NodeTypes(a) == 0..((2 ^ NumRoles(a)) * (MaxCoord + 1) - 1)
TypeCoord(t) == t % (MaxCoord + 1)
TypePattern(t) == t \div (MaxCoord + 1)

SortedTypes(a) ==
    {ty \in [Nodes -> NodeTypes(a)] :
        /\ \A n \in Nodes \ {NumNodes} : ty[n] <= ty[n + 1]
        /\ \A i \in 1..NumRoles(a) : \E n \in Nodes : Bit(TypePattern(ty[n]), i)}

\* Every mesh of the axis under study in which every role has a node: every
\* coordinate in 0..MaxCoord and every membership pattern for every node,
\* every choice of targets, every role named as declared and parsed once.
GeneralInputs(a) ==
    { Input(a, [n \in Nodes |-> TypeCoord(ty[n])], [n \in Nodes |-> TypePattern(ty[n])],
            mult, DeclaredRoles(a), <<>>, <<>>) :
        ty \in SortedTypes(a), mult \in [1..NumRoles(a) -> 1..MaxScale] }

\* Structured meshes: the nodes are numbered along the axis, every node
\* belongs to a contiguous run lo[n]..hi[n] of roles, the runs do not
\* decrease along the axis and leave no role without a node.
RangePattern(lo, hi) == [n \in Nodes |-> (2 ^ hi[n]) - (2 ^ (lo[n] - 1))]

ChainPatterns(a) ==
    LET r == NumRoles(a)
    IN  { RangePattern(lo, hi) :
            <<lo, hi>> \in
              { b \in [Nodes -> 1..r] \X [Nodes -> 1..r] :
                  /\ b[1][1] = 1
                  /\ b[2][NumNodes] = r
                  /\ \A n \in Nodes : b[1][n] <= b[2][n]
                  /\ \A n \in Nodes \ {NumNodes} :
                        /\ b[1][n] <= b[1][n + 1]
                        /\ b[2][n] <= b[2][n + 1]
                        /\ b[1][n + 1] <= b[2][n] + 1 } }

Min2(x, y) == IF x < y THEN x ELSE y

\* Node n at coordinate n - 1 (at most MaxCoord), and the same mirrored.
ChainCoords ==
    { [n \in Nodes |-> Min2(n - 1, MaxCoord)],
      [n \in Nodes |-> Min2(NumNodes - n, MaxCoord)] }

\* The targets of the first q roles are m times the reference, the others
\* equal the reference.
PrefixMults(a) ==
    { [i \in 1..NumRoles(a) |-> IF i <= q THEN m ELSE 1] :
        q \in 0..NumRoles(a), m \in 1..MaxScale }

ChainInputs(a) ==
    { Input(a, coord, pattern, mult, DeclaredRoles(a), <<>>, <<>>) :
        coord \in ChainCoords, pattern \in ChainPatterns(a), mult \in PrefixMults(a) }

\* Tiled meshes: the structured meshes in which the run of roles of each node
\* starts at the role the run of the node before it ends at, so that
\* consecutive regions meet in a shared node.
TilingPatterns(a) ==
    { RangePattern([n \in Nodes |-> IF n = 1 THEN 1 ELSE hi[n - 1]], hi) :
        hi \in { h \in [Nodes -> 1..NumRoles(a)] :
                    /\ h[NumNodes] = NumRoles(a)
                    /\ \A n \in Nodes \ {NumNodes} : h[n] <= h[n + 1] } }

\* Malformed files, on the tiled meshes with ascending coordinates and every
\* target MaxScale times its reference:
\*  - the set of role r carries the name of the next role of the axis (role
\*    r has no set, the next role has two), or a name that is no role;
\*  - one more set, spelled in capitals, carries the name of role r;
\*  - the set of role r has no node.
AscendingCoord == [n \in Nodes |-> Min2(n - 1, MaxCoord)]

NextRole(a, r) == DeclaredRoles(a)[(r % NumRoles(a)) + 1]

MisnamedInputs(a) ==
    { Input(a, AscendingCoord, pattern, [i \in 1..NumRoles(a) |-> MaxScale],
            [DeclaredRoles(a) EXCEPT ![r] = newName], <<>>, <<>>) :
        pattern \in TilingPatterns(a),
        <<r, newName>> \in
            { <<r, NextRole(a, r)>> : r \in 1..NumRoles(a) }
            \cup { <<r, "SETOTHER">> : r \in 1..NumRoles(a) } }

RepeatedInputs(a) ==
    { Input(a, AscendingCoord, pattern, [i \in 1..NumRoles(a) |-> MaxScale],
            DeclaredRoles(a), << Upper(DeclaredRoles(a)[r]) >>, << {n} >>) :
        pattern \in TilingPatterns(a), r \in 1..NumRoles(a), n \in Nodes }

\* Pattern p without role r.
Without(p, r) == IF Bit(p, r) THEN p - 2 ^ (r - 1) ELSE p

EmptiedInputs(a) ==
    { Input(a, AscendingCoord, [n \in Nodes |-> Without(pattern[n], r)],
            [i \in 1..NumRoles(a) |-> MaxScale], DeclaredRoles(a), <<>>, <<>>) :
        pattern \in TilingPatterns(a), r \in 1..NumRoles(a) }

(***************************************************************************)
(* The state of one run of main.  Where main holds one variable per axis   *)
(* (listCoordinatesX/Y/Z, listMinCoordinatesForUnorderedSetsAlongLength/   *)
(* Width/Depth, ...) the model holds one function over the axes.           *)
(***************************************************************************)
VARIABLES
    pc,                     \* position in main
    raised,                 \* the exception that ended the run, or "none"
    sysArgv,                \* sys.argv[2..14] as numbers
    scalingFactor,          \* the scalingFactor... variables
    listCoordinates,        \* listCoordinatesX, listCoordinatesY, listCoordinatesZ
    listNodeSetsNames,      \* listNodeSetsNames
    listNodesInNodeSets,    \* listNodesInNodeSets
    listMinUnordered,       \* listMinCoordinatesForUnorderedSetsAlong...
    listMaxUnordered,       \* listMaxCoordinatesForUnorderedSetsAlong...
    minLeft,                \* minYalongLength_left, minXalongWidth_left, minZalongDepth_bottom
    minRight,               \* minYalongLength_right, minXalongWidth_right, minZalongDepth_top
    listNodeSetsForOrdering,\* listNodeSetsForOrderingAlong...
    listScalingFactors,     \* listScalingFactorsAlong...
    listMinOrdering,        \* listMinCoordinatesForSetOrderingAlong...
    listMaxOrdering,        \* listMaxCoordinatesForSetOrderingAlong...
    translationTotal,       \* translationTotal
    listCoordinatesScaled,  \* listCoordinatesXscaled, ...Yscaled, ...Zscaled
    fileOut                 \* nodalCoordsScaled.dat: not opened, or its lines

vars == << pc, raised, sysArgv, scalingFactor, listCoordinates,
           listNodeSetsNames, listNodesInNodeSets, listMinUnordered,
           listMaxUnordered, minLeft, minRight, listNodeSetsForOrdering,
           listScalingFactors, listMinOrdering, listMaxOrdering,
           translationTotal, listCoordinatesScaled, fileOut >>

NotOpened == <<"not opened">>

InitWith(in) ==
    /\ pc = "normalize"
    /\ raised = "none"
    /\ sysArgv = in.argv
    /\ scalingFactor = ScalingFactors(in.argv)
    /\ listCoordinates = in.coords
    /\ listNodeSetsNames = in.names
    /\ listNodesInNodeSets = in.sets
    /\ listMinUnordered = [a \in Axes |-> Unbound]
    /\ listMaxUnordered = [a \in Axes |-> Unbound]
    /\ minLeft = [a \in Axes |-> Unbound]
    /\ minRight = [a \in Axes |-> Unbound]
    /\ listNodeSetsForOrdering = [a \in Axes |-> Unbound]
    /\ listScalingFactors = [a \in Axes |-> Unbound]
    /\ listMinOrdering = [a \in Axes |-> Unbound]
    /\ listMaxOrdering = [a \in Axes |-> Unbound]
    /\ translationTotal = Unbound
    /\ listCoordinatesScaled = [a \in Axes |-> Unbound]
    /\ fileOut = NotOpened

Init ==
    \/ \E in \in GeneralInputs("Depth") : InitWith(in)
    \/ \E a \in Axes :
          \/ \E in \in ChainInputs(a) : InitWith(in)
          \/ \E in \in MisnamedInputs(a) : InitWith(in)
          \/ \E in \in RepeatedInputs(a) : InitWith(in)
          \/ \E in \in EmptiedInputs(a) : InitWith(in)

\* An exception leaves main: the run ends, nothing more is assigned.
Raise(exception) ==
    /\ pc' = "failed"
    /\ raised' = exception

\* Translate the nodal coordinates so that the minimum of each is zero.
Normalize ==
    /\ pc = "normalize"
    /\ listCoordinates' = [a \in Axes |-> Normalized(listCoordinates[a])]
    /\ pc' = "setBounds"
    /\ UNCHANGED << raised, sysArgv, scalingFactor, listNodeSetsNames,
                    listNodesInNodeSets, listMinUnordered, listMaxUnordered,
                    minLeft, minRight, listNodeSetsForOrdering,
                    listScalingFactors, listMinOrdering, listMaxOrdering,
                    translationTotal, listCoordinatesScaled, fileOut >>

SomeSetEmpty == \E i \in DOMAIN listNodesInNodeSets : listNodesInNodeSets[i] = {}

\* The loop computing the minimum and maximum of every parsed node set.
ComputeSetBounds ==
    /\ pc = "setBounds"
    /\ ~SomeSetEmpty
    /\ listMinUnordered' =
          [a \in Axes |-> UnorderedMin(listCoordinates[a], listNodesInNodeSets)]
    /\ listMaxUnordered' =
          [a \in Axes |-> UnorderedMax(listCoordinates[a], listNodesInNodeSets)]
    /\ pc' = "boundaries"
    /\ UNCHANGED << raised, sysArgv, scalingFactor, listCoordinates,
                    listNodeSetsNames, listNodesInNodeSets, minLeft, minRight,
                    listNodeSetsForOrdering, listScalingFactors,
                    listMinOrdering, listMaxOrdering, translationTotal,
                    listCoordinatesScaled, fileOut >>

\* min() of an empty sequence raises ValueError.
ComputeSetBoundsFails ==
    /\ pc = "setBounds"
    /\ SomeSetEmpty
    /\ Raise("ValueError")
    /\ UNCHANGED << sysArgv, scalingFactor, listCoordinates,
                    listNodeSetsNames, listNodesInNodeSets, listMinUnordered,
                    listMaxUnordered, minLeft, minRight, listNodeSetsForOrdering,
                    listScalingFactors, listMinOrdering, listMaxOrdering,
                    translationTotal, listCoordinatesScaled, fileOut >>

\* The loop that looks up the two boundary sets of every axis.
FindBoundaryMinima ==
    /\ pc = "boundaries"
    /\ minLeft' = [a \in Axes |->
          BoundaryMinimum(listNodeSetsNames, listMinUnordered[a], LeftBoundary(a))]
    /\ minRight' = [a \in Axes |->
          BoundaryMinimum(listNodeSetsNames, listMinUnordered[a], RightBoundary(a))]
    /\ pc' = "order"
    /\ UNCHANGED << raised, sysArgv, scalingFactor, listCoordinates,
                    listNodeSetsNames, listNodesInNodeSets, listMinUnordered,
                    listMaxUnordered, listNodeSetsForOrdering,
                    listScalingFactors, listMinOrdering, listMaxOrdering,
                    translationTotal, listCoordinatesScaled, fileOut >>

BoundaryUnbound(a) == minLeft[a] = Unbound \/ minRight[a] = Unbound

\* The position of an axis in the order main treats the axes in.
AxisIndex(a) == CHOOSE i \in 1..Len(AxisSeq) : AxisSeq[i] = a

\* The axes main has treated before it reaches axis number f.
AxesBefore(f) == {AxisSeq[i] : i \in 1..(f - 1)}

\* The number of the first axis whose comparison reads an unassigned
\* variable; one more than the number of axes if there is none.
FirstUnbound ==
    CHOOSE f \in 1..(Len(AxisSeq) + 1) :
        /\ \A i \in 1..(f - 1) : ~BoundaryUnbound(AxisSeq[i])
        /\ f <= Len(AxisSeq) => BoundaryUnbound(AxisSeq[f])

\* The four lists of an axis after its if/else and its double loop.
OrderingWith(ordered, factors, unorderedMin, unorderedMax, indices) ==
    [ ordered |-> ordered,
      factors |-> factors,
      mins    |-> CoordinatesAt(unorderedMin, indices),
      maxs    |-> CoordinatesAt(unorderedMax, indices) ]

OrderingOf(a) ==
    OrderingWith(NodeSetsForOrdering(a, minLeft[a], minRight[a]),
                 ScalingFactorsAlong(a, minLeft[a], minRight[a], scalingFactor),
                 listMinUnordered[a], listMaxUnordered[a],
                 SetsForOrderingFrom(listNodeSetsNames,
                                     NodeSetsForOrdering(a, minLeft[a], minRight[a]), 1))

\* The lists of the axes main has treated before it reaches axis number f.
OrderingsBefore(f) ==
    [ Length |-> IF AxisIndex("Length") < f THEN OrderingOf("Length") ELSE Unbound,
      Width  |-> IF AxisIndex("Width") < f THEN OrderingOf("Width") ELSE Unbound,
      Depth  |-> IF AxisIndex("Depth") < f THEN OrderingOf("Depth") ELSE Unbound ]

\* The if/else blocks that order the roles of length, width and depth, each
\* followed by the double loop that collects the bounds of the ordered roles,
\* as far as the axes before axis number f.
OrderAxesBefore(f, ordering) ==
    /\ listNodeSetsForOrdering' =
          [a \in Axes |-> IF a \in AxesBefore(f) THEN ordering[a].ordered ELSE Unbound]
    /\ listScalingFactors' =
          [a \in Axes |-> IF a \in AxesBefore(f) THEN ordering[a].factors ELSE Unbound]
    /\ listMinOrdering' =
          [a \in Axes |-> IF a \in AxesBefore(f) THEN ordering[a].mins ELSE Unbound]
    /\ listMaxOrdering' =
          [a \in Axes |-> IF a \in AxesBefore(f) THEN ordering[a].maxs ELSE Unbound]

OrderAxes ==
    /\ pc = "order"
    /\ FirstUnbound > Len(AxisSeq)
    /\ OrderAxesBefore(Len(AxisSeq) + 1, OrderingsBefore(Len(AxisSeq) + 1))
    /\ pc' = "scale"
    /\ UNCHANGED << raised, sysArgv, scalingFactor, listCoordinates,
                    listNodeSetsNames, listNodesInNodeSets, listMinUnordered,
                    listMaxUnordered, minLeft, minRight, translationTotal,
                    listCoordinatesScaled, fileOut >>

\* The comparison of an axis reads a variable that no node set assigned:
\* UnboundLocalError, after the axes before it were ordered.
OrderAxesFails ==
    /\ pc = "order"
    /\ FirstUnbound <= Len(AxisSeq)
    /\ OrderAxesBefore(FirstUnbound, OrderingsBefore(FirstUnbound))
    /\ Raise("UnboundLocalError")
    /\ UNCHANGED << sysArgv, scalingFactor, listCoordinates,
                    listNodeSetsNames, listNodesInNodeSets, listMinUnordered,
                    listMaxUnordered, minLeft, minRight, translationTotal,
                    listCoordinatesScaled, fileOut >>

\* What the scaling loop of axis a reads.
ScaleContext(a) ==
    [ coords  |-> listCoordinates[a],
      names   |-> listNodeSetsNames,
      sets    |-> listNodesInNodeSets,
      ordered |-> listNodeSetsForOrdering[a],
      factors |-> listScalingFactors[a],
      mins    |-> listMinOrdering[a],
      maxs    |-> listMaxOrdering[a] ]

\* The list of bounds of axis a is shorter than its list of roles.
BoundsShort(a) == Len(listMinOrdering[a]) < Len(listNodeSetsForOrdering[a])

\* The number of the first axis whose scaling loop indexes past the end of
\* its list of bounds; one more than the number of axes if there is none.
FirstShort ==
    CHOOSE f \in 1..(Len(AxisSeq) + 1) :
        /\ \A i \in 1..(f - 1) : ~BoundsShort(AxisSeq[i])
        /\ f <= Len(AxisSeq) => BoundsShort(AxisSeq[f])

\* The scaling pass of axis a: the whole loop, or, when the bounds run out,
\* the iterations before listMinCoordinatesForSetOrdering...[i] raises.
ScalingPass(a) ==
    ScaleLoop(ScaleContext(a),
              IF BoundsShort(a) THEN Len(listMinOrdering[a])
                                ELSE Len(listNodeSetsForOrdering[a]))

\* The scaling passes of the axes up to axis number f.
PassesUpTo(f) ==
    [ Length |-> IF AxisIndex("Length") <= f THEN ScalingPass("Length") ELSE Unbound,
      Width  |-> IF AxisIndex("Width") <= f THEN ScalingPass("Width") ELSE Unbound,
      Depth  |-> IF AxisIndex("Depth") <= f THEN ScalingPass("Depth") ELSE Unbound ]

\* The scaling passes of length, width and depth as far as axis number f,
\* each starting from translationTotal = 0 and a scaled list full of 1E20.
ScaleAxesUpTo(f, pass) ==
    /\ listCoordinatesScaled' =
          [a \in Axes |-> IF AxisIndex(a) <= f THEN pass[a].scaled ELSE Unbound]
    /\ translationTotal' = pass[AxisSeq[f]].translationTotal

ScaleAxes ==
    /\ pc = "scale"
    /\ FirstShort > Len(AxisSeq)
    /\ ScaleAxesUpTo(Len(AxisSeq), PassesUpTo(Len(AxisSeq)))
    /\ pc' = "write"
    /\ UNCHANGED << raised, sysArgv, scalingFactor, listCoordinates,
                    listNodeSetsNames, listNodesInNodeSets, listMinUnordered,
                    listMaxUnordered, minLeft, minRight, listNodeSetsForOrdering,
                    listScalingFactors, listMinOrdering, listMaxOrdering,
                    fileOut >>

\* The list of bounds of an axis is shorter than its list of roles: after
\* the passes of the axes before it and one iteration per bound,
\* listMinCoordinatesForSetOrdering...[i] raises IndexError.
ScaleAxesFails ==
    /\ pc = "scale"
    /\ FirstShort <= Len(AxisSeq)
    /\ ScaleAxesUpTo(FirstShort, PassesUpTo(FirstShort))
    /\ Raise("IndexError")
    /\ UNCHANGED << sysArgv, scalingFactor, listCoordinates,
                    listNodeSetsNames, listNodesInNodeSets, listMinUnordered,
                    listMaxUnordered, minLeft, minRight, listNodeSetsForOrdering,
                    listScalingFactors, listMinOrdering, listMaxOrdering,
                    fileOut >>

\* One line of nodalCoordsScaled.dat: the node ID, then the scaled X, Y and
\* Z coordinate.  The 10-decimal format prints the values of the model
\* without loss.
OutputLine(n, scaled) ==
    << n, scaled["Width"][n], scaled["Length"][n], scaled["Depth"][n] >>

\* Open nodalCoordsScaled.dat and write one line per node.
WriteOutput ==
    /\ pc = "write"
    /\ fileOut' = [n \in Nodes |-> OutputLine(n, listCoordinatesScaled)]
    /\ pc' = "done"
    /\ UNCHANGED << raised, sysArgv, scalingFactor, listCoordinates,
                    listNodeSetsNames, listNodesInNodeSets, listMinUnordered,
                    listMaxUnordered, minLeft, minRight, listNodeSetsForOrdering,
                    listScalingFactors, listMinOrdering, listMaxOrdering,
                    translationTotal, listCoordinatesScaled >>

Next ==
    \/ Normalize
    \/ ComputeSetBounds
    \/ ComputeSetBoundsFails
    \/ FindBoundaryMinima
    \/ OrderAxes
    \/ OrderAxesFails
    \/ ScaleAxes
    \/ ScaleAxesFails
    \/ WriteOutput

Spec == Init /\ [][Next]_vars

(***************************************************************************)
(* The vocabulary of the claims.                                           *)
(***************************************************************************)
\* The parsed node sets whose name matches a role, whatever the case.
SetsNamed(role) ==
    {i \in DOMAIN listNodeSetsNames : Upper(listNodeSetsNames[i]) = Upper(role)}

\* The nodes of a region: the members of the node sets named as its role.
RegionNodes(role) == UNION {listNodesInNodeSets[i] : i \in SetsNamed(role)}

\* The roles of an axis as a set, and the nodes that belong to at least one
\* controlling node set of the axis.
RoleSet(a) == {DeclaredRoles(a)[i] : i \in 1..NumRoles(a)}
ControlledNodes(a) == UNION {RegionNodes(role) : role \in RoleSet(a)}

\* The scale factor the command line supplies for a role: its target
\* dimension over its reference dimension.
ArgvPosition == [role \in {ArgvRoles[k] : k \in 1..Len(ArgvRoles)} |->
                    1 + CHOOSE k \in 1..Len(ArgvRoles) : ArgvRoles[k] = role]
SuppliedFactor(role) == RDiv(sysArgv[ArgvPosition[role]], ReferenceDimension(role))

\* The roles of an axis have been ordered; its scaling pass has run to its end.
Ordered(a) == listNodeSetsForOrdering[a] # Unbound
PassDone(a) == listCoordinatesScaled[a] # Unbound /\ ~BoundsShort(a)


\* The regions of an axis in resolution order: region k has the k-th role,
\* the nodes of the node sets named as that role, the bounds resolved for
\* position k and the scale factor supplied for the role.
RECURSIVE RegionsFrom(_, _)
RegionsFrom(a, k) ==
    IF k > Len(listNodeSetsForOrdering[a])
    THEN <<>>
    ELSE << [ role  |-> listNodeSetsForOrdering[a][k],
              nodes |-> RegionNodes(listNodeSetsForOrdering[a][k]),
              rmin  |-> listMinOrdering[a][k],
              rmax  |-> listMaxOrdering[a][k],
              s     |-> SuppliedFactor(listNodeSetsForOrdering[a][k]) ] >>
         \o RegionsFrom(a, k + 1)

Regions(a) == RegionsFrom(a, 1)

\* The running translations T_1 .. T_k in front of the first k regions: T_1
\* is 0 and each region j adds (rmax_j - rmin_j) * (s_j - 1) for those
\* processed after it.
AddTranslation(regions, before) ==
    LET j == Len(before)
    IN  Append(before,
               RAdd(before[j],
                    RMul(RSub(regions[j].rmax, regions[j].rmin),
                         RSub(regions[j].s, RInt(1)))))

RECURSIVE Translations(_, _)
Translations(regions, k) ==
    IF k = 1
    THEN << RInt(0) >>
    ELSE AddTranslation(regions, Translations(regions, k - 1))

\* The last region in resolution order whose node set contains node n.
LastRegion(regions, n) ==
    CHOOSE k \in DOMAIN regions :
        /\ n \in regions[k].nodes
        /\ \A j \in DOMAIN regions : j > k => n \notin regions[j].nodes

\* T + rmin + (c - rmin) * s
AffineImage(T, region, c) ==
    RAdd(RAdd(T, region.rmin), RMul(RSub(c, region.rmin), region.s))

\* The extreme normalized coordinates of a set of nodes.
OwnMin(a, nodes) == RMin({listCoordinates[a][n] : n \in nodes})
OwnMax(a, nodes) == RMax({listCoordinates[a][n] : n \in nodes})

\* Every role of the axis is the name of exactly one parsed node set.
NamedOnce(a) == \A role \in RoleSet(a) : Cardinality(SetsNamed(role)) = 1

\* The region-local affine law along axis a, for regions with running
\* translations T.
AffineLaw(a, regions, T) ==
    /\ \A n \in Nodes :
          (\E k \in DOMAIN regions : n \in regions[k].nodes) =>
              LET k == LastRegion(regions, n)
              IN  listCoordinatesScaled[a][n] =
                      AffineImage(T[k], regions[k], listCoordinates[a][n])
    /\ NamedOnce(a) =>
          \A k \in DOMAIN regions :
              /\ regions[k].rmin = OwnMin(a, regions[k].nodes)
              /\ regions[k].rmax = OwnMax(a, regions[k].nodes)

\* C1: when the run is over, along every axis every node n of a controlling
\* node set holds T_k + rmin_k + (c(n) - rmin_k) * s_k, where k is the last
\* region in resolution order whose node set contains n, s_k the factor
\* supplied for its role, rmin_k and rmax_k the bounds resolved for it (the
\* extreme coordinates of its node set when every role names one node set),
\* and T_k the sum of (rmax_j - rmin_j) * (s_j - 1) over the regions before k.
C1_AffineLaw ==
    pc = "done" =>
        \A a \in Axes :
            AffineLaw(a, Regions(a), Translations(Regions(a), Len(listNodeSetsForOrdering[a])))

\* Node n lies in the first and the third region but not the second, off the
\* minimum of the third, which is not 0, behind a translation that is not 0
\* and under a factor that is not 1.
StraddlingNode(a, regions, T, n) ==
    /\ n \in regions[1].nodes
    /\ n \notin regions[2].nodes
    /\ LastRegion(regions, n) = 3
    /\ T[3] # RInt(0)
    /\ regions[3].s # RInt(1)
    /\ regions[3].rmin # RInt(0)
    /\ listCoordinates[a][n] # regions[3].rmin
    /\ listCoordinatesScaled[a][n] = AffineImage(T[3], regions[3], listCoordinates[a][n])

\* A finished run in which a node lies in two regions that are not
\* neighbours, off the minimum of the later one, behind a translation that
\* is not zero, under a factor that is not 1.
C1_Witness ==
    /\ pc = "done"
    /\ NamedOnce("Depth")
    /\ \E n \in Nodes :
          StraddlingNode("Depth", Regions("Depth"),
                         Translations(Regions("Depth"), NumRoles("Depth")), n)

\* The minimum normalized coordinate of a boundary set: of the last parsed
\* node set named as the role.
BoundarySetMin(a, role) ==
    LET last == CHOOSE i \in SetsNamed(role) : \A j \in SetsNamed(role) : j <= i
    IN  RMin({listCoordinates[a][n] : n \in listNodesInNodeSets[last]})

Reversed(seq) == [k \in 1..Len(seq) |-> seq[Len(seq) + 1 - k]]

\* The two minima compared for an axis: of its first and of its last role.
LeftMin(a) == BoundarySetMin(a, DeclaredRoles(a)[1])
RightMin(a) == BoundarySetMin(a, DeclaredRoles(a)[NumRoles(a)])

\* The role list expected: as declared, or reversed end to end.
ExpectedOrder(a, left, right) ==
    IF RLess(left, right) THEN DeclaredRoles(a) ELSE Reversed(DeclaredRoles(a))

\* C3: once the roles of an axis are ordered, the role list is the declared
\* list if the minimum of the left (bottom) boundary set is strictly below
\* that of the right (deposit) boundary set and the declared list reversed
\* end to end otherwise, equal minima included; in both cases the factor at
\* each position is the one supplied for the role at that position.
C3_RegionOrdering ==
    \A a \in Axes :
        Ordered(a) =>
            /\ listNodeSetsForOrdering[a] = ExpectedOrder(a, LeftMin(a), RightMin(a))
            /\ listScalingFactors[a] =
                  [k \in 1..NumRoles(a) |-> SuppliedFactor(listNodeSetsForOrdering[a][k])]

\* A finished run with an axis whose two boundary minima are equal, whose
\* roles were therefore reversed, and whose factors are not all the same.
C3_Witness ==
    /\ pc = "done"
    /\ \E a \in Axes :
          /\ LeftMin(a) = RightMin(a)
          /\ listNodeSetsForOrdering[a] = Reversed(DeclaredRoles(a))
          /\ listScalingFactors[a][1] # listScalingFactors[a][NumRoles(a)]
          /\ listScalingFactors[a][1] = SuppliedFactor(DeclaredRoles(a)[NumRoles(a)])

\* The column of an axis in a line of nodalCoordsScaled.dat.
ColumnOf(a) ==
    CASE a = "Width"  -> 2
      [] a = "Length" -> 3
      [] a = "Depth"  -> 4

\* A node holds 1E20 along axis a exactly when it is not among controlled.
SentinelExactlyOutside(a, controlled) ==
    \A n \in Nodes : (listCoordinatesScaled[a][n] = Sentinel) <=> (n \notin controlled)

\* C6: after the scaling pass of an axis a node holds 1E20 along it exactly
\* when it belongs to no controlling node set of the axis, and the output
\* file carries, for every node, the value its entry holds, 1E20 included.
C6_AssignmentCompleteness ==
    \A a \in Axes :
        /\ PassDone(a) => SentinelExactlyOutside(a, ControlledNodes(a))
        /\ pc = "done" =>
              \A n \in Nodes : fileOut[n][ColumnOf(a)] = listCoordinatesScaled[a][n]

\* A written file in which one node carries 1E20 along an axis none of whose
\* controlling node sets holds it, next to a node with a computed value.
C6_Witness ==
    /\ pc = "done"
    /\ \E a \in Axes : \E n, m \in Nodes :
          /\ n \notin ControlledNodes(a)
          /\ fileOut[n][ColumnOf(a)] = Sentinel
          /\ m \in ControlledNodes(a)
          /\ fileOut[m][ColumnOf(a)] # Sentinel

\* Every scale factor supplied for the roles of an axis is 1.
AllFactorsOne(a) == \A role \in RoleSet(a) : SuppliedFactor(role) = RInt(1)

\* Every node among nodes holds its normalized coordinate along axis a.
KeepsNormalized(a, nodes) ==
    \A n \in nodes : listCoordinatesScaled[a][n] = listCoordinates[a][n]

\* C5 as claimed: when the run is over, along an axis whose scale factors
\* are all 1 every node holds its normalized coordinate.
C5_EveryNodeKeepsCoordinate ==
    pc = "done" => \A a \in Axes : AllFactorsOne(a) => KeepsNormalized(a, Nodes)

\* C5 as amended: when the run is over, along an axis whose scale factors
\* are all 1 every node of a controlling node set of the axis holds its
\* normalized coordinate.
C5_IdentityScaling ==
    pc = "done" => \A a \in Axes : AllFactorsOne(a) => KeepsNormalized(a, ControlledNodes(a))

\* A finished run with an axis under factors 1 on which a node of a region
\* whose minimum is not 0 holds its normalized coordinate, and another node,
\* of no controlling node set, holds 1E20.
C5_Witness ==
    /\ pc = "done"
    /\ \E a \in Axes :
          /\ AllFactorsOne(a)
          /\ \E k \in 1..Len(listMinOrdering[a]) : listMinOrdering[a][k] # RInt(0)
          /\ \E n \in ControlledNodes(a) :
                /\ listCoordinates[a][n] # RInt(0)
                /\ listCoordinatesScaled[a][n] = listCoordinates[a][n]
          /\ \E n \in Nodes \ ControlledNodes(a) : listCoordinatesScaled[a][n] = Sentinel

\* The final running translation of an axis over the regions numbered in
\* counted: the sum of (rmax_j - rmin_j) * (s_j - 1) over them.
RECURSIVE TranslationOver(_, _, _)
TranslationOver(regions, counted, k) ==
    IF k = 0
    THEN RInt(0)
    ELSE RAdd(TranslationOver(regions, counted, k - 1),
              IF k \in counted
              THEN RMul(RSub(regions[k].rmax, regions[k].rmin), RSub(regions[k].s, RInt(1)))
              ELSE RInt(0))

DepthTop == "setControllingBasePlateDepthTop"
DepthBottom == "setControllingBasePlateDepthBottom"
DepositDepth == "setControllingDepositDepth"

\* The nodes that belong to the node sets named DepthTop and to no other
\* controlling node set of the depth axis.
OnlyInDepthTop ==
    RegionNodes(DepthTop) \ (RegionNodes(DepthBottom) \cup RegionNodes(DepositDepth))

\* C8 as claimed: when the run is over, the depth roles were taken in declared
\* order exactly when the minimum of DepthBottom is below that of DepthTop,
\* the nodes that belong to DepthTop only were not scaled, and the depth
\* translation sums over the regions other than DepthTop.
DepthTopBoundaryOnly(regions) ==
    /\ listNodeSetsForOrdering["Depth"] =
          ExpectedOrder("Depth", BoundarySetMin("Depth", DepthBottom),
                        BoundarySetMin("Depth", DepthTop))
    /\ \A n \in OnlyInDepthTop : listCoordinatesScaled["Depth"][n] = Sentinel
    /\ translationTotal =
          TranslationOver(regions, {k \in DOMAIN regions : regions[k].role # DepthTop},
                          Len(regions))

C8_DepthTopBoundaryOnly ==
    (pc = "done" /\ NamedOnce("Depth")) => DepthTopBoundaryOnly(Regions("Depth"))

\* C8 as amended: DepthTop is the middle controlling region of the depth
\* axis and no boundary set.  When the run is over, the depth roles were
\* taken in declared order exactly when the minimum of DepthBottom is below
\* that of DepositDepth, DepthTop is the second region either way, a node
\* whose last region is DepthTop holds T + rmin + (c - rmin) * s with s the
\* factor supplied for DepthTop, and the depth translation sums over all
\* three regions, DepthTop included.
DepthTopControls(regions) ==
    /\ listNodeSetsForOrdering["Depth"] =
          ExpectedOrder("Depth", BoundarySetMin("Depth", DepthBottom),
                        BoundarySetMin("Depth", DepositDepth))
    /\ regions[2].role = DepthTop
    /\ regions[2].s = RDiv(sysArgv[ArgvPosition[DepthTop]], ReferenceDimension(DepthTop))
    /\ \A n \in regions[2].nodes \ regions[3].nodes :
          listCoordinatesScaled["Depth"][n] =
              AffineImage(TranslationOver(regions, {1}, 1), regions[2],
                          listCoordinates["Depth"][n])
    /\ translationTotal = TranslationOver(regions, DOMAIN regions, Len(regions))

C8_DepthTopIsRegion ==
    (pc = "done" /\ NamedOnce("Depth")) => DepthTopControls(Regions("Depth"))

\* A finished run in which DepthBottom starts below DepositDepth but not
\* below DepthTop, DepthTop has a length and a factor that is not 1, and a
\* node of DepthTop alone, off its minimum, holds a computed value.
DepthTopMatters(regions) ==
    /\ RLess(BoundarySetMin("Depth", DepthBottom), BoundarySetMin("Depth", DepositDepth))
    /\ ~RLess(BoundarySetMin("Depth", DepthBottom), BoundarySetMin("Depth", DepthTop))
    /\ regions[2].rmin # regions[2].rmax
    /\ regions[2].s # RInt(1)
    /\ \E n \in OnlyInDepthTop :
          /\ listCoordinates["Depth"][n] # regions[2].rmin
          /\ listCoordinatesScaled["Depth"][n] # Sentinel
          /\ listCoordinatesScaled["Depth"][n] # listCoordinates["Depth"][n]

C8_Witness ==
    /\ pc = "done"
    /\ NamedOnce("Depth")
    /\ DepthTopMatters(Regions("Depth"))

\* The roles of the three axes.
AllRoles == RoleSet("Length") \cup RoleSet("Width") \cup RoleSet("Depth")

\* A required role that no parsed node set is named as.
SomeRoleMissing == \E role \in AllRoles : SetsNamed(role) = {}

\* C4 as claimed: a run whose node sets leave a required role without a
\* match never opens nodalCoordsScaled.dat, whatever other node sets are
\* present.
C4_MissingRegionAborts ==
    SomeRoleMissing => (fileOut = NotOpened /\ pc \notin {"write", "done"})

\* A controlling node set without a node.
SomeRegionEmpty ==
    \E role \in AllRoles : \E i \in SetsNamed(role) : listNodesInNodeSets[i] = {}

\* Region k has no length; the nodes it is the last region of hold T + rmin
\* and the translation behind it is the one in front of it.
DegenerateHarmless(a, regions, T) ==
    \A k \in DOMAIN regions :
        regions[k].rmin = regions[k].rmax =>
            /\ \A n \in regions[k].nodes :
                  LastRegion(regions, n) = k =>
                      listCoordinatesScaled[a][n] = RAdd(T[k], regions[k].rmin)
            /\ k < Len(regions) => T[k + 1] = T[k]

\* C9 as claimed: a controlling node set with no node does not abort the
\* run, and when the run is over a region with rmin = rmax has left T + rmin
\* in its nodes and added 0 to the running translation.
C9_DegeneratePermitted ==
    /\ SomeRegionEmpty => pc # "failed"
    /\ pc = "done" =>
          \A a \in Axes :
              DegenerateHarmless(a, Regions(a),
                                 Translations(Regions(a), Len(listNodeSetsForOrdering[a])))

\* The last parsed node set named as a role.
LastSetNamed(role) == CHOOSE i \in SetsNamed(role) : \A j \in SetsNamed(role) : j <= i

\* A role of the axis that more than one parsed node set is named as.
SomeRoleRepeated(a) == \E role \in RoleSet(a) : Cardinality(SetsNamed(role)) > 1

\* Every region of the axis has the bounds of the last node set named as its
\* role, and only nodes of those last node sets were scaled.
ResolvedFromLastMatch(a, regions) ==
    /\ \A k \in DOMAIN regions :
          SetsNamed(regions[k].role) # {} =>
              /\ regions[k].rmin = OwnMin(a, listNodesInNodeSets[LastSetNamed(regions[k].role)])
              /\ regions[k].rmax = OwnMax(a, listNodesInNodeSets[LastSetNamed(regions[k].role)])
    /\ \A n \in Nodes :
          listCoordinatesScaled[a][n] # Sentinel =>
              \E role \in RoleSet(a) :
                  /\ SetsNamed(role) # {}
                  /\ n \in listNodesInNodeSets[LastSetNamed(role)]

\* C10 as claimed: a role named by more than one node set, with no role left
\* without one, raises no error, and when the run is over every region of its axis has the bounds of the
\* last node set named as its role and only the nodes of those last node
\* sets were scaled.
C10_LastMatchResolves ==
    /\ \A a \in Axes :
          (SomeRoleRepeated(a) /\ ~SomeRoleMissing /\ ~SomeRegionEmpty) => pc # "failed"
    /\ (pc = "done" /\ ~SomeRoleMissing) =>
          \A a \in Axes : SomeRoleRepeated(a) => ResolvedFromLastMatch(a, Regions(a))

\* The largest and the smallest scaled coordinate over a set of nodes.
ScaledMax(scaled, nodes) == RMax({scaled[n] : n \in nodes})
ScaledMin(scaled, nodes) == RMin({scaled[n] : n \in nodes})

\* Regions i and i + 1 share a node that sits on rmax_i = rmin_(i+1).
SharedBoundaryNode(a, regions, i) ==
    /\ regions[i].rmax = regions[i + 1].rmin
    /\ \E n \in regions[i].nodes \cap regions[i + 1].nodes :
          listCoordinates[a][n] = regions[i].rmax

\* No gap and no overlap between regions i and i + 1 after scaling.
Meets(a, regions, i) ==
    ScaledMax(listCoordinatesScaled[a], regions[i].nodes) =
        ScaledMin(listCoordinatesScaled[a], regions[i + 1].nodes)

\* C2 as claimed, for the runs in which every role names one node set: when
\* the run is over, consecutive regions i, i + 1 that share a node on
\* rmax_i = rmin_(i+1) meet: the largest scaled coordinate of region i is the
\* smallest of region i + 1.
ContiguousWhereShared(a, regions) ==
    \A i \in 1..(Len(regions) - 1) :
        SharedBoundaryNode(a, regions, i) => Meets(a, regions, i)

OwnBounds(a, regions, k) ==
    /\ regions[k].rmin = OwnMin(a, regions[k].nodes)
    /\ regions[k].rmax = OwnMax(a, regions[k].nodes)

\* No node of region i or i + 1 belongs to a region processed after them.
NoLaterRegion(regions, i) ==
    \A k \in (i + 2)..Len(regions) :
        regions[k].nodes \cap (regions[i].nodes \cup regions[i + 1].nodes) = {}

\* C2 as amended: when the run is over, consecutive regions i, i + 1 that
\* share a node on rmax_i = rmin_(i+1) meet, provided that no node of the
\* two belongs to a region processed after them, that the bounds of both are
\* the extreme coordinates of their own nodes, and that neither scale factor
\* is negative.
ContiguousWhereLastWritten(a, regions) ==
    \A i \in 1..(Len(regions) - 1) :
        ( /\ SharedBoundaryNode(a, regions, i)
          /\ NoLaterRegion(regions, i)
          /\ OwnBounds(a, regions, i)
          /\ OwnBounds(a, regions, i + 1)
          /\ RLeq(RInt(0), regions[i].s)
          /\ RLeq(RInt(0), regions[i + 1].s) )
        => Meets(a, regions, i)

MeetingMoved(a, regions, i) ==
    /\ SharedBoundaryNode(a, regions, i)
    /\ NoLaterRegion(regions, i)
    /\ regions[i].rmin # regions[i].rmax
    /\ regions[i + 1].rmin # regions[i + 1].rmax
    /\ regions[i].s # RInt(1)
    /\ Meets(a, regions, i)
    /\ ScaledMax(listCoordinatesScaled[a], regions[i].nodes) # regions[i].rmax

PassOn(a, coords) ==
    LET mins    == UnorderedMin(coords, listNodesInNodeSets)
        maxs    == UnorderedMax(coords, listNodesInNodeSets)
        left    == BoundaryMinimum(listNodeSetsNames, mins, LeftBoundary(a))
        right   == BoundaryMinimum(listNodeSetsNames, mins, RightBoundary(a))
        ordered == NodeSetsForOrdering(a, left, right)
        indices == SetsForOrderingFrom(listNodeSetsNames, ordered, 1)
    IN  ScaleLoop([ coords  |-> coords,
                    names   |-> listNodeSetsNames,
                    sets    |-> listNodesInNodeSets,
                    ordered |-> ordered,
                    factors |-> ScalingFactorsAlong(a, left, right, scalingFactor),
                    mins    |-> CoordinatesAt(mins, indices),
                    maxs    |-> CoordinatesAt(maxs, indices) ],
                  Len(ordered))

\* The extent of the mesh along axis a, and the mesh mirrored along it.
Extent(a) == RMax({listCoordinates[a][n] : n \in Nodes})
Mirrored(a) == [n \in Nodes |-> RSub(Extent(a), listCoordinates[a][n])]

\* The regions of axis a tile it: every role names one node set, the first
\* region starts at 0, each region ends where the next one starts, the last
\* one ends at the extent of the mesh.
Tiles(a, regions) ==
    /\ NamedOnce(a)
    /\ regions[1].rmin = RInt(0)
    /\ \A k \in 1..(Len(regions) - 1) : regions[k].rmax = regions[k + 1].rmin
    /\ regions[Len(regions)].rmax = Extent(a)

\* The scaled span of the nodes of a role.
ScaledSpan(scaled, role) ==
    RSub(ScaledMax(scaled, RegionNodes(role)), ScaledMin(scaled, RegionNodes(role)))

\* The mirrored run is the mirror image of the run: with L' the scaled
\* extent of the axis, every node of a controlling node set holds L' minus
\* what it holds in the run, and every region has the scaled span it has in
\* the run.
MirrorImage(a, mirrored, scaledExtent) ==
    /\ \A n \in ControlledNodes(a) :
          mirrored.scaled[n] = RSub(scaledExtent, listCoordinatesScaled[a][n])
    /\ \A role \in RoleSet(a) :
          ScaledSpan(mirrored.scaled, role) = ScaledSpan(listCoordinatesScaled[a], role)

\* C7: when the run is over, for an axis whose regions tile it and whose left
\* boundary set starts below its right one, the pass on the mesh mirrored
\* along the axis, same node sets and same targets, gives the mirror image.
FlipInvariant(a, regions) ==
    (Tiles(a, regions) /\ RLess(LeftMin(a), RightMin(a))) =>
        MirrorImage(a, PassOn(a, Mirrored(a)),
                    RAdd(Extent(a), TranslationOver(regions, DOMAIN regions, Len(regions))))

C7_FlipInvariance ==
    pc = "done" => \A a \in Axes : FlipInvariant(a, Regions(a))

\* A finished run on a tiled axis, left below right, with two regions that
\* have a length and different factors, whose mirrored pass takes the roles
\* in reversed order.
FlipMatters(a, regions) ==
    /\ Tiles(a, regions)
    /\ RLess(LeftMin(a), RightMin(a))
    /\ \E j, k \in DOMAIN regions :
          /\ j < k
          /\ regions[j].rmin # regions[j].rmax
          /\ regions[k].rmin # regions[k].rmax
          /\ regions[j].s # regions[k].s
    /\ PassOn(a, Mirrored(a)).scaled # listCoordinatesScaled[a]
    /\ PassOn(a, listCoordinates[a]).scaled = listCoordinatesScaled[a]

C7_Witness ==
    /\ pc = "done"
    /\ \E a \in Axes : FlipMatters(a, Regions(a))
====
